---- MODULE Spec2Model ----
(***************************************************************************)
(* Model of the ontology-closure engine (clustering/hpo_ensmallen.py) and  *)
(* of the per-cluster aggregator and its tests                             *)
(* (semanticsimilarity/hpo_cluster_analyzer.py).                           *)
(*                                                                         *)
(* Python lists are sequences, sets are sets, dicts are functions whose    *)
(* DOMAIN is the set of keys.  A default argument of a Python function is  *)
(* one object created when the function is defined: it is a variable of    *)
(* the process (ancestors_default, descendents_default).                   *)
(***************************************************************************)
EXTENDS Integers, Sequences, FiniteSets, TLC

\* ---------------------------------------------------------------- bounds
MaxCalls == 3      \* calls made in one behaviour
MaxRows == 2       \* rows of the patient/HPO table
MaxAssign == 2     \* rows of the cluster-assignment table
MaxCovRows == 2    \* rows of the covariate table
PScale == 4        \* p-values are the multiples k / PScale, k in 0..PScale

\* ------------------------------------------------------------- ontology
\* Terms of the ontology, in the order the graph library lists neighbours.
NodeSeq == <<"A", "B", "C", "D">>
Nodes == {NodeSeq[i] : i \in 1..Len(NodeSeq)}

\* An ontology is a set of is-a edges <<term, parent>>.  Edges only lead
\* from a term to a later one of NodeSeq, so every graph is acyclic.
NodeIndex(n) == CHOOSE i \in 1..Len(NodeSeq) : NodeSeq[i] = n
IsaEdges == {e \in Nodes \X Nodes : NodeIndex(e[1]) < NodeIndex(e[2])}
Chain == {<<"A", "B">>, <<"B", "C">>}
Diamond == {<<"A", "B">>, <<"A", "C">>, <<"B", "D">>, <<"C", "D">>}

\* Terms that annotation rows name; "X" is no term of the ontology.
AnnTerms == {"A", "C", "X"}
\* Patient ids, in the sorted order in which groupby lists its groups.
PatientSeq == <<"p1", "p2">>
Patients == {PatientSeq[i] : i \in 1..Len(PatientSeq)}
\* Cluster ids, in the order list(set(...)) lists small integers.
ClusterSeq == <<1, 2>>
Clusters == {ClusterSeq[i] : i \in 1..Len(ClusterSeq)}

VARIABLES
  graph,                \* HpoEnsmallen.graph: the is-a edges
  ancestors_default,    \* the list bound to get_ancestors' default ancestors=[]
  descendents_default,  \* the list bound to get_descendents' default descendents=[]
  closure_call,         \* the last top-level closure call and what it returned
  ncalls,               \* calls made so far
  patient_hpo_df,       \* rows <<patient_id, hpo_id>> of the annotation table
  cluster_assignment_df,\* rows <<patient_id, cluster>> of the assignment table
  analyzer,             \* the HpoClusterAnalyzer in use
  ingest_log,           \* history: the add_counts calls made on analyzer
  earlier,              \* an analyzer constructed before, with its history
  last_call,            \* the last call on analyzer and how it ended
  cov_call              \* the do_chi_square_on_covariates call and its result

Elems(s) == {s[i] : i \in 1..Len(s)}

\* graph.get_node_neighbours_name_by_node_name(t): the direct parents of t.
parentsOf(G, t) == SelectSeq(NodeSeq, LAMBDA n : <<t, n>> \in G)
\* graph_reversed_edges.get_node_neighbours_name_by_node_name(t): the children.
childrenOf(G, t) == SelectSeq(NodeSeq, LAMBDA n : <<n, t>> \in G)

RECURSIVE get_descendents(_, _, _)
RECURSIVE DescendentsLoop(_, _, _, _)
\* The for loop of get_descendents over nbrs[i..]; acc is the list so far.
DescendentsLoop(G, nbrs, i, acc) ==
  IF i > Len(nbrs) THEN acc
  ELSE DescendentsLoop(G, nbrs, i + 1,
         IF nbrs[i] \in Elems(acc) THEN acc
         ELSE get_descendents(G, nbrs[i], acc))

\* get_descendents(hpo_term, descendents): the list is extended in place
\* (+=), so the value returned is the list object that was passed.
get_descendents(G, hpo_term, descendents) ==
  DescendentsLoop(G, childrenOf(G, hpo_term), 1, Append(descendents, hpo_term))

RECURSIVE AncestorsLoop(_, _, _, _)
\* The for loop of get_ancestors: each new parent is expanded by
\* get_descendents, as the source does.
AncestorsLoop(G, nbrs, i, acc) ==
  IF i > Len(nbrs) THEN acc
  ELSE AncestorsLoop(G, nbrs, i + 1,
         IF nbrs[i] \in Elems(acc) THEN acc
         ELSE get_descendents(G, nbrs[i], acc))

get_ancestors(G, hpo_term, ancestors) ==
  AncestorsLoop(G, parentsOf(G, hpo_term), 1, Append(ancestors, hpo_term))

\* ------------------------------------------------------------ dictionaries
EmptyDict == [x \in {} |-> 0]
Put(d, k, v) == [x \in DOMAIN d \cup {k} |-> IF x = k THEN v ELSE d[x]]
Get(d, k, default) == IF k \in DOMAIN d THEN d[k] ELSE default
Max(S) == CHOOSE m \in S : \A x \in S : x <= m

\* ---------------------------------------------------------------- analyzer
\* HpoClusterAnalyzer.__init__.  A value of _percluster_termcounts is
\* [dd, m]: m is the inner dict, dd says whether it is a defaultdict(int)
\* (made by add_counts) or the plain dict the outer defaultdict(dict) makes
\* when a missing cluster is read.
FreshAnalyzer ==
  [percluster_termcounts |-> EmptyDict,
   per_cluster_total_pt_count |-> EmptyDict,
   hpo_terms |-> {},
   total_patients |-> 0,
   clusters |-> <<>>,
   unique_pt_ids |-> {}]

\* HpoEnsmallen.node_exists is called by add_counts and is not in the
\* sources at hand: by the specification it answers whether the term is a
\* node of the ontology graph.
node_exists(G, hpo_id) == hpo_id \in Nodes

\* {row[id]: row[cluster] for row in collect()}: a later row replaces an
\* earlier one of the same patient.
cluster_dict(ca) ==
  [p \in {ca[i][1] : i \in 1..Len(ca)} |->
     ca[Max({i \in 1..Len(ca) : ca[i][1] = p})][2]]

HasDuplicatePatients(ca) ==
  Len(ca) # Cardinality({ca[i][1] : i \in 1..Len(ca)})

\* list(set(cluster_dict.values()))
ClusterList(cd) == SelectSeq(ClusterSeq, LAMBDA c : \E p \in DOMAIN cd : cd[p] = c)

\* toPandas().groupby(patient_id)[hpo_id].apply(list): the patients in sorted
\* order, each with its terms in row order.
GroupedPatients(ph) ==
  SelectSeq(PatientSeq, LAMBDA p : \E i \in 1..Len(ph) : ph[i][1] = p)
RECURSIVE HpoIdList(_, _)
HpoIdList(ph, p) ==
  IF ph = <<>> THEN <<>>
  ELSE IF Head(ph)[1] = p THEN <<Head(ph)[2]>> \o HpoIdList(Tail(ph), p)
       ELSE HpoIdList(Tail(ph), p)

\* The loop over hpo_id_list (lines 92-99); ts = [terms, induced, anc, warned].
RECURSIVE TermLoop(_, _, _, _)
TermLoop(G, ids, i, ts) ==
  IF i > Len(ids) THEN ts
  ELSE LET hpo_id == ids[i]
           ancs == get_ancestors(G, hpo_id, ts.anc)
       IN TermLoop(G, ids, i + 1,
            IF node_exists(G, hpo_id)
            THEN [terms |-> ts.terms \cup {hpo_id},
                  induced |-> ts.induced \cup {hpo_id} \cup Elems(ancs),
                  anc |-> ancs,
                  warned |-> ts.warned]
            ELSE [terms |-> ts.terms \cup {hpo_id},
                  induced |-> ts.induced,
                  anc |-> ts.anc,
                  warned |-> ts.warned \cup {hpo_id}])

\* self._percluster_termcounts[cluster][hpo_id] += 1 for every term of the
\* induced set, on a defaultdict(int).
Increment(m, induced) ==
  [t \in DOMAIN m \cup induced |-> Get(m, t, 0) + (IF t \in induced THEN 1 ELSE 0)]

\* One pass of the loop over patients (lines 77-102).
\* st = [an, anc, warned, outcome].
PatientStep(G, st, patient_id, hpo_id_list, cd) ==
  IF patient_id \notin DOMAIN cd
  THEN [st EXCEPT !.outcome = "ValueError: patient not in cluster_assignment"]
  ELSE
    LET cluster == cd[patient_id]
        an == st.an
        totals == Put(an.per_cluster_total_pt_count, cluster,
                      Get(an.per_cluster_total_pt_count, cluster, 0) + 1)
        tc == IF cluster \in DOMAIN an.percluster_termcounts
              THEN an.percluster_termcounts
              ELSE Put(an.percluster_termcounts, cluster, [dd |-> TRUE, m |-> EmptyDict])
        ts == TermLoop(G, hpo_id_list, 1,
                [terms |-> an.hpo_terms, induced |-> {}, anc |-> st.anc,
                 warned |-> st.warned])
        an1 == [an EXCEPT !.per_cluster_total_pt_count = totals,
                          !.percluster_termcounts = tc,
                          !.hpo_terms = ts.terms,
                          !.total_patients = @ + 1]
    IN IF ts.induced # {} /\ ~tc[cluster].dd
       THEN \* += 1 on a key a plain dict does not hold
            [an |-> an1, anc |-> ts.anc, warned |-> ts.warned, outcome |-> "KeyError"]
       ELSE [an |-> [an1 EXCEPT !.percluster_termcounts[cluster].m =
                                   Increment(@, ts.induced)],
             anc |-> ts.anc, warned |-> ts.warned, outcome |-> "ok"]

RECURSIVE PatientLoop(_, _, _, _, _, _)
PatientLoop(G, ph, cd, pats, i, st) ==
  IF i > Len(pats) \/ st.outcome # "ok" THEN st
  ELSE PatientLoop(G, ph, cd, pats, i + 1,
                   PatientStep(G, st, pats[i], HpoIdList(ph, pats[i]), cd))

\* Lines 52-102: what add_counts does once the duplicate check has passed.
Aggregate(G, an, anc, ph, ca) ==
  LET cd == cluster_dict(ca)
      an0 == [an EXCEPT !.unique_pt_ids = DOMAIN cd, !.clusters = ClusterList(cd)]
  IN PatientLoop(G, ph, cd, GroupedPatients(ph), 1,
                 [an |-> an0, anc |-> anc, warned |-> {}, outcome |-> "ok"])

\* The same code with the duplicate check made after the cluster list is
\* stored (lines 52-53 moved above line 49).
add_counts_late_check(G, an, anc, ph, ca) ==
  IF HasDuplicatePatients(ca)
  THEN [an |-> [an EXCEPT !.unique_pt_ids = DOMAIN cluster_dict(ca),
                          !.clusters = ClusterList(cluster_dict(ca))],
        anc |-> anc, warned |-> {},
        outcome |-> "ValueError: duplicate rows"]
  ELSE Aggregate(G, an, anc, ph, ca)

\* HpoClusterAnalyzer.add_counts on analyzer an, with anc the list bound to
\* get_ancestors' default argument.  The isinstance and column checks of
\* lines 55-67 pass: both arguments are tables with the default columns.
add_counts(G, an, anc, ph, ca) ==
  IF HasDuplicatePatients(ca)
  THEN [an |-> an, anc |-> anc, warned |-> {},
        outcome |-> "ValueError: duplicate rows"]
  ELSE Aggregate(G, an, anc, ph, ca)

\* ------------------------------------------------------- enrichment tests
NaN == [kind |-> "nan"]
any(counts) == \E i \in 1..Len(counts) : counts[i] # 0
Sum(counts) == LET RECURSIVE S(_)
                   S(i) == IF i = 0 THEN 0 ELSE counts[i] + S(i - 1)
               IN S(Len(counts))

\* Lines 115-126 (and 153-164) for one cluster of self._clusters.
\* cs = [an, total, with, without, with_hpo_count, without_hpo_count, outcome].
\* Reading a defaultdict at a missing key stores the default under it.
ClusterStep(cs, hpo_id, cluster) ==
  LET an == cs.an
      totals == IF cluster \in DOMAIN an.per_cluster_total_pt_count
                THEN an.per_cluster_total_pt_count
                ELSE Put(an.per_cluster_total_pt_count, cluster, 0)
      total == totals[cluster]
      tc == IF cluster \in DOMAIN an.percluster_termcounts
            THEN an.percluster_termcounts
            ELSE Put(an.percluster_termcounts, cluster, [dd |-> FALSE, m |-> EmptyDict])
      inner == tc[cluster]
      an1 == [an EXCEPT !.per_cluster_total_pt_count = totals,
                        !.percluster_termcounts = tc]
      with_hpo == Get(inner.m, hpo_id, 0)
      without_hpo == total - with_hpo
  IN IF hpo_id \notin DOMAIN inner.m /\ ~inner.dd
     THEN [cs EXCEPT !.an = an1, !.outcome = "KeyError"]
     ELSE [an |-> [an1 EXCEPT !.percluster_termcounts[cluster].m = Put(@, hpo_id, with_hpo)],
           total |-> Put(cs.total, cluster, total),
           with |-> Put(cs.with, cluster, with_hpo),
           without |-> Put(cs.without, cluster, without_hpo),
           with_hpo_count |-> Append(cs.with_hpo_count, with_hpo),
           without_hpo_count |-> Append(cs.without_hpo_count, without_hpo),
           outcome |-> "ok"]

RECURSIVE ClusterLoop(_, _, _, _)
ClusterLoop(cs, hpo_id, clusters, i) ==
  IF i > Len(clusters) \/ cs.outcome # "ok" THEN cs
  ELSE ClusterLoop(ClusterStep(cs, hpo_id, clusters[i]), hpo_id, clusters, i + 1)

CountsOf(an, hpo_id) ==
  ClusterLoop([an |-> an, total |-> EmptyDict, with |-> EmptyDict,
               without |-> EmptyDict, with_hpo_count |-> <<>>,
               without_hpo_count |-> <<>>, outcome |-> "ok"],
              hpo_id, an.clusters, 1)

\* scipy.stats.chi2_contingency(table): a ValueError when a cell of the
\* expected table is zero (a row or a column of the table sums to zero),
\* else the statistic, p-value, degrees of freedom and expected table.
chi2_contingency(table) ==
  IF (\E r \in 1..Len(table) : Sum(table[r]) = 0)
     \/ (\E c \in 1..Len(table[1]) : table[1][c] + table[2][c] = 0)
  THEN [outcome |-> "ValueError"]
  ELSE [outcome |-> "ok",
        value |-> [kind |-> "chi2_contingency", table |-> table]]

\* Lines 127-140: the row of one term.
Chi2Row(hpo_id, cs) ==
  LET table == <<cs.with_hpo_count, cs.without_hpo_count>>
      d == [hpo_id |-> hpo_id, total |-> cs.total, with |-> cs.with,
            without |-> cs.without]
      nan == [outcome |-> "ok", warned |-> TRUE,
              row |-> [d |-> d, stat |-> NaN, p |-> NaN, dof |-> NaN, expected |-> NaN]]
  IN IF ~any(cs.without_hpo_count) THEN nan
     ELSE IF ~any(cs.with_hpo_count) THEN nan
     ELSE LET r == chi2_contingency(table)
          IN IF r.outcome # "ok"
             THEN [outcome |-> r.outcome, warned |-> FALSE, row |-> NaN]
             ELSE [outcome |-> "ok", warned |-> FALSE,
                   row |-> [d |-> d, stat |-> r.value, p |-> r.value,
                            dof |-> r.value, expected |-> r.value]]

\* The loop of do_chi2 over self._hpo_terms, taken in the order terms
\* (a Python set of strings has no fixed order).
\* st = [an, rows, warned, outcome].
RECURSIVE Chi2Loop(_, _, _)
Chi2Loop(st, terms, i) ==
  IF i > Len(terms) \/ st.outcome # "ok" THEN st
  ELSE LET cs == CountsOf(st.an, terms[i])
           r == Chi2Row(terms[i], cs)
       IN Chi2Loop(
            IF cs.outcome # "ok"
            THEN [st EXCEPT !.an = cs.an, !.outcome = cs.outcome]
            ELSE IF r.outcome # "ok"
            THEN [st EXCEPT !.an = cs.an, !.outcome = r.outcome]
            ELSE [an |-> cs.an,
                  rows |-> Put(st.rows, terms[i], r.row),
                  warned |-> IF r.warned THEN st.warned \cup {terms[i]} ELSE st.warned,
                  outcome |-> "ok"],
            terms, i + 1)

\* HpoClusterAnalyzer.do_chi2: the result rows, keyed by term.
do_chi2(an, terms) ==
  Chi2Loop([an |-> an, rows |-> EmptyDict, warned |-> {}, outcome |-> "ok"], terms, 1)

\* scipy.stats.fisher_exact(table) on a 2 x 2 table computes the odds ratio
\* and the p-value.  On any other shape the scipy releases of the time of
\* this code raise ValueError; rxc stands for an installed release that
\* accepts a larger table and computes a value.
fisher_exact(table, rxc) ==
  IF Len(table[1]) = 2 \/ rxc
  THEN [outcome |-> "ok", value |-> [kind |-> "fisher_exact", table |-> table]]
  ELSE [outcome |-> "ValueError"]

\* The loop of do_fisher_exact (lines 149-169); no branch of it warns.
RECURSIVE FisherLoop(_, _, _, _)
FisherLoop(st, terms, i, rxc) ==
  IF i > Len(terms) \/ st.outcome # "ok" THEN st
  ELSE LET cs == CountsOf(st.an, terms[i])
           r == fisher_exact(<<cs.with_hpo_count, cs.without_hpo_count>>, rxc)
           d == [hpo_id |-> terms[i], total |-> cs.total, with |-> cs.with,
                 without |-> cs.without]
       IN FisherLoop(
            IF cs.outcome # "ok"
            THEN [st EXCEPT !.an = cs.an, !.outcome = cs.outcome]
            ELSE IF r.outcome # "ok"
            THEN [st EXCEPT !.an = cs.an, !.outcome = r.outcome]
            ELSE [an |-> cs.an,
                  rows |-> Put(st.rows, terms[i],
                               [d |-> d, oddsr |-> r.value, p |-> r.value]),
                  warned |-> st.warned,
                  outcome |-> "ok"],
            terms, i + 1, rxc)

do_fisher_exact(an, terms, rxc) ==
  FisherLoop([an |-> an, rows |-> EmptyDict, warned |-> {}, outcome |-> "ok"],
             terms, 1, rxc)

\* ---------------------------------------------------------- covariates
\* The covariate table: covariate_dataframe.columns, the dtype of each
\* column, and the rows as records.
CovColumns == <<"cluster", "diabetes", "gender">>
IsBool(column) == column = "diabetes"
CovRows == [cluster : Clusters, diabetes : BOOLEAN, gender : {"F", "M"}]
DefaultMinimumN == 5

\* pd.crosstab(frame[cluster_col], frame[column]): the counts, by the
\* cluster values and the column's values that occur.
crosstab(frame, cluster_col, column) ==
  LET index == {frame[i][cluster_col] : i \in 1..Len(frame)}
      columns == {frame[i][column] : i \in 1..Len(frame)}
  IN [index |-> index, columns |-> columns,
      cell |-> [c \in index \X columns |->
                  Cardinality({i \in 1..Len(frame) :
                     frame[i][cluster_col] = c[1] /\ frame[i][column] = c[2]})]]

\* The values of a factor column, in sorted order.
FactorOrder == <<"1", "F", "M">>
SetSum(f, S) == LET RECURSIVE T(_)
                    T(R) == IF R = {} THEN 0
                            ELSE LET x == CHOOSE x \in R : TRUE
                                 IN f[x] + T(R \ {x})
                IN T(S)

\* add_true_counts_by_cluster: the counts of the "true" value by cluster
\* and the totals by cluster, added to d.  No column of the model holds
\* the integer 1, so the test "1 in columns" (line 276) is always false.
add_true_counts_by_cluster(d, contingency_table, is_bool) ==
  LET ct == contingency_table
      total_counts == [c \in ct.index |->
                         SetSum([v \in ct.columns |-> ct.cell[<<c, v>>]], ct.columns)]
      first == CHOOSE v \in ct.columns :
                 \A w \in ct.columns :
                   (CHOOSE i \in 1..Len(FactorOrder) : FactorOrder[i] = v)
                     <= (CHOOSE i \in 1..Len(FactorOrder) : FactorOrder[i] = w)
      true_counts_col == IF is_bool THEN TRUE
                         ELSE IF "1" \in ct.columns THEN "1"
                         ELSE first
  IN IF Cardinality(ct.columns) <= 2
     THEN IF true_counts_col \notin ct.columns
          THEN [outcome |-> "KeyError", d |-> d]
          ELSE [outcome |-> "ok",
                d |-> [covariate |-> d.covariate, chi2 |-> d.chi2, p |-> d.p,
                       dof |-> d.dof,
                       true_counts |-> [c \in ct.index |-> ct.cell[<<c, true_counts_col>>]],
                       total_counts |-> total_counts]]
     ELSE [outcome |-> "ok",
           d |-> [covariate |-> d.covariate, chi2 |-> d.chi2, p |-> d.p,
                  dof |-> d.dof,
                  true_counts |-> [c \in ct.index |-> NaN],
                  total_counts |-> total_counts]]

Num(v) == [kind |-> "num", v |-> v]

\* Lines 245-252 for one tested column; p_value is the p-value that
\* chi2_contingency computes for the column's contingency table.
CovariateRow(frame, cluster_col, minimum_n, column, p_value) ==
  LET ct == crosstab(frame, cluster_col, column)
      n_true == Cardinality({i \in 1..Len(frame) : frame[i][column] = TRUE})
      d == IF IsBool(column) /\ n_true < minimum_n
           THEN [covariate |-> column, chi2 |-> NaN, p |-> NaN, dof |-> NaN]
           ELSE [covariate |-> column,
                 chi2 |-> [kind |-> "chi2_contingency", table |-> ct],
                 p |-> Num(p_value),
                 dof |-> [kind |-> "chi2_contingency", table |-> ct]]
  IN add_true_counts_by_cluster(d, ct, IsBool(column))

\* The loop over covariate_dataframe.columns (lines 242-253).
RECURSIVE CovariateLoop(_, _, _, _, _, _, _)
CovariateLoop(frame, cluster_col, minimum_n, ignore_col, pvalues, i, st) ==
  IF i > Len(CovColumns) \/ st.outcome # "ok" THEN st
  ELSE LET column == CovColumns[i]
           r == CovariateRow(frame, cluster_col, minimum_n, column, Get(pvalues, column, 0))
       IN CovariateLoop(frame, cluster_col, minimum_n, ignore_col, pvalues, i + 1,
            IF column = cluster_col \/ column \in ignore_col THEN st
            ELSE IF r.outcome # "ok" THEN [st EXCEPT !.outcome = r.outcome]
            ELSE [st EXCEPT !.results = Append(@, r.d)])

\* x * results_pd.shape[0], without the cap of line 258.
bonferroni_uncapped(results) ==
  [i \in 1..Len(results) |->
     [results[i] EXCEPT !.p = IF @ = NaN THEN NaN ELSE Num(@.v * Len(results))]]

\* Lines 257-258: every p times the number of result rows, then 1 unless
\* it is below 1 or not-a-number.  A product with not-a-number is
\* not-a-number.
bonferroni_correction(results) ==
  [i \in 1..Len(results) |->
     [results[i] EXCEPT !.p =
        IF @ = NaN THEN NaN
        ELSE IF @.v * Len(results) < PScale THEN Num(@.v * Len(results))
        ELSE Num(PScale)]]

\* HpoClusterAnalyzer.do_chi_square_on_covariates.  Taking column 'p' of a
\* table built from no rows raises KeyError.
do_chi_square_on_covariates(frame, cluster_col, minimum_n, ignore_col, bonferroni, pvalues) ==
  IF cluster_col \notin Elems(CovColumns)
  THEN [outcome |-> "ValueError", raw |-> <<>>, results |-> <<>>]
  ELSE LET st == CovariateLoop(frame, cluster_col, minimum_n, ignore_col, pvalues, 1,
                               [outcome |-> "ok", results |-> <<>>])
       IN IF st.outcome # "ok"
          THEN [outcome |-> st.outcome, raw |-> <<>>, results |-> <<>>]
          ELSE IF ~bonferroni
          THEN [outcome |-> "ok", raw |-> st.results, results |-> st.results]
          ELSE IF st.results = <<>>
          THEN [outcome |-> "KeyError", raw |-> <<>>, results |-> <<>>]
          ELSE [outcome |-> "ok", raw |-> st.results,
                results |-> bonferroni_correction(st.results)]

\* ------------------------------------------------------------ behaviours
SeqsUpTo(S, n) == UNION {[1..m -> S] : m \in 0..n}
\* The orders in which a set may be listed.
Orders(S) == {s \in [1..Cardinality(S) -> S] : Elems(s) = S}

NoCall == [op |-> "none", k |-> 0, outcome |-> "ok", rows |-> EmptyDict, warned |-> {}]
NoClosureCall == [op |-> "none", term |-> "", result |-> {}]
NoCovCall == [pending |-> FALSE]

vars == <<graph, ancestors_default, descendents_default, closure_call, ncalls,
          patient_hpo_df, cluster_assignment_df, analyzer, ingest_log, earlier,
          last_call, cov_call>>

analyzerVars == <<patient_hpo_df, cluster_assignment_df, analyzer, ingest_log,
                  earlier, last_call>>

\* The ontology is loaded, an analyzer is constructed, and the two tables
\* the caller holds are fixed.
Init ==
  /\ graph \in {Chain, Diamond}
  /\ ancestors_default = <<>>
  /\ descendents_default = <<>>
  /\ closure_call = NoClosureCall
  /\ ncalls = 0
  /\ patient_hpo_df \in SeqsUpTo(Patients \X AnnTerms, MaxRows)
  /\ cluster_assignment_df \in SeqsUpTo(Patients \X Clusters, MaxAssign)
  /\ analyzer = FreshAnalyzer
  /\ ingest_log = <<>>
  /\ earlier = [an |-> FreshAnalyzer, log |-> <<>>]
  /\ last_call = NoCall
  /\ cov_call = NoCovCall

\* analyzer.add_counts(patient_hpo_df, cluster_assignment_df.limit(k))
AddCounts(k) ==
  /\ ncalls < MaxCalls
  /\ LET r == add_counts(graph, analyzer, ancestors_default, patient_hpo_df,
                         SubSeq(cluster_assignment_df, 1, k))
     IN /\ analyzer' = r.an
        /\ ancestors_default' = r.anc
        /\ ingest_log' = Append(ingest_log, [k |-> k, outcome |-> r.outcome])
        /\ last_call' = [op |-> "add_counts", k |-> k, outcome |-> r.outcome,
                         rows |-> EmptyDict, warned |-> r.warned]
  /\ ncalls' = ncalls + 1
  /\ UNCHANGED <<graph, descendents_default, closure_call, patient_hpo_df,
                 cluster_assignment_df, earlier, cov_call>>

\* analyzer.do_chi2()
DoChi2(terms) ==
  /\ ncalls < MaxCalls
  /\ LET r == do_chi2(analyzer, terms)
     IN /\ analyzer' = r.an
        /\ last_call' = [op |-> "do_chi2", k |-> 0, outcome |-> r.outcome,
                         rows |-> IF r.outcome = "ok" THEN r.rows ELSE EmptyDict,
                         warned |-> r.warned]
  /\ ncalls' = ncalls + 1
  /\ UNCHANGED <<graph, ancestors_default, descendents_default, closure_call,
                 patient_hpo_df, cluster_assignment_df, ingest_log, earlier, cov_call>>

\* analyzer.do_fisher_exact()
DoFisherExact(terms, rxc) ==
  /\ ncalls < MaxCalls
  /\ LET r == do_fisher_exact(analyzer, terms, rxc)
     IN /\ analyzer' = r.an
        /\ last_call' = [op |-> "do_fisher_exact", k |-> 0, outcome |-> r.outcome,
                         rows |-> IF r.outcome = "ok" THEN r.rows ELSE EmptyDict,
                         warned |-> r.warned]
  /\ ncalls' = ncalls + 1
  /\ UNCHANGED <<graph, ancestors_default, descendents_default, closure_call,
                 patient_hpo_df, cluster_assignment_df, ingest_log, earlier, cov_call>>

\* analyzer = HpoClusterAnalyzer(hpo): the caller keeps the one it had.
NewAnalyzer ==
  /\ ncalls < MaxCalls
  /\ earlier' = [an |-> analyzer, log |-> ingest_log]
  /\ analyzer' = FreshAnalyzer
  /\ ingest_log' = <<>>
  /\ last_call' = [NoCall EXCEPT !.op = "new"]
  /\ ncalls' = ncalls + 1
  /\ UNCHANGED <<graph, ancestors_default, descendents_default, closure_call,
                 patient_hpo_df, cluster_assignment_df, cov_call>>

Next ==
  \/ \E k \in 0..Len(cluster_assignment_df) : AddCounts(k)
  \/ \E terms \in Orders(analyzer.hpo_terms) : DoChi2(terms)
  \/ \E terms \in Orders(analyzer.hpo_terms), rxc \in BOOLEAN : DoFisherExact(terms, rxc)
  \/ NewAnalyzer

Spec == Init /\ [][Next]_vars

\* ------------------------------------------------ closure calls alone
InitClosure ==
  /\ graph \in SUBSET IsaEdges
  /\ ancestors_default = <<>>
  /\ descendents_default = <<>>
  /\ closure_call = NoClosureCall
  /\ ncalls = 0
  /\ patient_hpo_df = <<>>
  /\ cluster_assignment_df = <<>>
  /\ analyzer = FreshAnalyzer
  /\ ingest_log = <<>>
  /\ earlier = [an |-> FreshAnalyzer, log |-> <<>>]
  /\ last_call = NoCall
  /\ cov_call = NoCovCall

\* hpo.get_ancestors(t), no accumulator passed: the default list is used,
\* extended in place and returned.
GetAncestors(t) ==
  /\ ncalls < MaxCalls
  /\ LET r == get_ancestors(graph, t, ancestors_default)
     IN /\ ancestors_default' = r
        /\ closure_call' = [op |-> "get_ancestors", term |-> t, result |-> Elems(r)]
  /\ ncalls' = ncalls + 1
  /\ UNCHANGED <<graph, descendents_default, analyzerVars, cov_call>>

\* hpo.get_descendents(t), no accumulator passed.
GetDescendents(t) ==
  /\ ncalls < MaxCalls
  /\ LET r == get_descendents(graph, t, descendents_default)
     IN /\ descendents_default' = r
        /\ closure_call' = [op |-> "get_descendents", term |-> t, result |-> Elems(r)]
  /\ ncalls' = ncalls + 1
  /\ UNCHANGED <<graph, ancestors_default, analyzerVars, cov_call>>

NextClosure ==
  \/ \E t \in Nodes : GetAncestors(t)
  \/ \E t \in Nodes : GetDescendents(t)

SpecClosure == InitClosure /\ [][NextClosure]_vars

\* ---------------------------------------------- the covariate test alone
Covariates == Elems(CovColumns) \ {"cluster"}
CovFrames == UNION {[1..m -> CovRows] : m \in 1..MaxCovRows}

InitCov ==
  /\ graph = Chain
  /\ ancestors_default = <<>>
  /\ descendents_default = <<>>
  /\ closure_call = NoClosureCall
  /\ ncalls = 0
  /\ patient_hpo_df = <<>>
  /\ cluster_assignment_df = <<>>
  /\ analyzer = FreshAnalyzer
  /\ ingest_log = <<>>
  /\ earlier = [an |-> FreshAnalyzer, log |-> <<>>]
  /\ last_call = NoCall
  /\ cov_call \in [pending : {TRUE}, frame : CovFrames,
                    cluster_col : {"cluster", "group"},
                    minimum_n : {1, DefaultMinimumN},
                    ignore_col : SUBSET Covariates,
                    bonferroni : BOOLEAN]

\* HpoClusterAnalyzer.do_chi_square_on_covariates(frame, cluster_col,
\* minimum_n, ignore_col, bonferroni), with pvalues what chi2_contingency
\* answers for each column.
Evaluate(pvalues) ==
  /\ cov_call.pending
  /\ LET r == do_chi_square_on_covariates(cov_call.frame, cov_call.cluster_col,
                 cov_call.minimum_n, cov_call.ignore_col, cov_call.bonferroni, pvalues)
     IN cov_call' = [pending |-> FALSE, frame |-> cov_call.frame,
                     cluster_col |-> cov_call.cluster_col,
                     minimum_n |-> cov_call.minimum_n,
                     ignore_col |-> cov_call.ignore_col,
                     bonferroni |-> cov_call.bonferroni,
                     outcome |-> r.outcome, raw |-> r.raw, results |-> r.results]
  /\ UNCHANGED <<graph, ancestors_default, descendents_default, closure_call,
                 ncalls, analyzerVars>>

\* The columns chi2_contingency is called on (lines 243, 246).
ChiSquareRun(call) ==
  {column \in Elems(CovColumns) :
     /\ call.cluster_col \in Elems(CovColumns)
     /\ column # call.cluster_col /\ column \notin call.ignore_col
     /\ ~(IsBool(column) /\
          Cardinality({i \in 1..Len(call.frame) : call.frame[i][column] = TRUE})
            < call.minimum_n)}

NextCov == \E pvalues \in [ChiSquareRun(cov_call) -> 0..PScale] : Evaluate(pvalues)

SpecCov == InitCov /\ [][NextCov]_vars

\* Aggregation alone, on a smaller family of tables: the chain ontology,
\* patient p1 annotated with "A" and patient p2 with the unknown "X".
IngestRows == {<<"p1", "A">>, <<"p2", "X">>}

InitIngest ==
  /\ graph = Chain
  /\ ancestors_default = <<>>
  /\ descendents_default = <<>>
  /\ closure_call = NoClosureCall
  /\ ncalls = 0
  /\ patient_hpo_df \in SeqsUpTo(IngestRows, MaxRows)
  /\ cluster_assignment_df \in SeqsUpTo(Patients \X Clusters, MaxAssign)
  /\ analyzer = FreshAnalyzer
  /\ ingest_log = <<>>
  /\ earlier = [an |-> FreshAnalyzer, log |-> <<>>]
  /\ last_call = NoCall
  /\ cov_call = NoCovCall

NextIngest == \E k \in 0..Len(cluster_assignment_df) : AddCounts(k)

SpecIngest == InitIngest /\ [][NextIngest]_vars

\* ------------------------------------------------- what the claims speak of
AllTerms == Nodes \cup AnnTerms

\* The terms reachable from S by zero or more parent edges.
RECURSIVE ParentClosure(_, _)
ParentClosure(G, S) ==
  LET S2 == S \cup {e[2] : e \in {e \in G : e[1] \in S}}
  IN IF S2 = S THEN S ELSE ParentClosure(G, S2)
RECURSIVE ChildClosure(_, _)
ChildClosure(G, S) ==
  LET S2 == S \cup {e[1] : e \in {e \in G : e[2] \in S}}
  IN IF S2 = S THEN S ELSE ChildClosure(G, S2)

\* The induced closure set of patient p in the annotation table ph.
InducedClosureSet(G, ph, p) ==
  ParentClosure(G, {ph[i][2] : i \in {j \in 1..Len(ph) : ph[j][1] = p}} \cap Nodes)

Ingested(ph) == {ph[i][1] : i \in 1..Len(ph)}
Assignment(k) == cluster_dict(SubSeq(cluster_assignment_df, 1, k))

\* PerClusterTermCounts[c][t] and PerClusterTotals[c], 0 where unrecorded.
TermCount(an, c, t) ==
  IF c \in DOMAIN an.percluster_termcounts
  THEN Get(an.percluster_termcounts[c].m, t, 0) ELSE 0
Total(an, c) == Get(an.per_cluster_total_pt_count, c, 0)

AllSucceeded(log) == log # <<>> /\ \A i \in 1..Len(log) : log[i].outcome = "ok"

\* C1: after add_counts completes on a fresh analyzer, the count of every
\* cluster and term is the number of ingested patients of the cluster whose
\* induced closure set (annotated terms of the ontology and all they reach
\* by parent edges) holds the term.
C1_TermCountsAreClosureCounts ==
  (last_call.op = "add_counts" /\ Len(ingest_log) = 1 /\ AllSucceeded(ingest_log)) =>
    LET cd == Assignment(ingest_log[1].k)
    IN \A c \in Clusters, t \in AllTerms :
         TermCount(analyzer, c, t) =
           Cardinality({p \in Ingested(patient_hpo_df) :
                          cd[p] = c /\ t \in InducedClosureSet(graph, patient_hpo_df, p)})

\* C4: after any sequence of successful add_counts calls on one analyzer,
\* the total of every cluster is the number of distinct ingested patient
\* ids assigned to it.
C4_TotalsCountDistinctPatients ==
  AllSucceeded(ingest_log) =>
    \A c \in Clusters :
      Total(analyzer, c) =
        Cardinality({p \in Ingested(patient_hpo_df) :
                       \E i \in 1..Len(ingest_log) :
                         LET cd == Assignment(ingest_log[i].k)
                         IN p \in DOMAIN cd /\ cd[p] = c})

\* C5: a cluster assignment with two rows for one patient id makes
\* add_counts raise the validation error and leaves the analyzer (term
\* counts, totals, observed terms, cluster list) as it was before the call.
C5_DuplicateAssignmentRejected ==
  [][(last_call'.op = "add_counts"
      /\ HasDuplicatePatients(SubSeq(cluster_assignment_df, 1, last_call'.k)))
     => (/\ last_call'.outcome = "ValueError: duplicate rows"
         /\ analyzer'.percluster_termcounts = analyzer.percluster_termcounts
         /\ analyzer'.per_cluster_total_pt_count = analyzer.per_cluster_total_pt_count
         /\ analyzer'.hpo_terms = analyzer.hpo_terms
         /\ analyzer'.clusters = analyzer.clusters)]_vars

\* A duplicate assignment was rejected by an analyzer that had already
\* aggregated patients of some cluster.
C5_Witness ==
  /\ last_call.op = "add_counts"
  /\ last_call.outcome = "ValueError: duplicate rows"
  /\ HasDuplicatePatients(SubSeq(cluster_assignment_df, 1, last_call.k))
  /\ analyzer.total_patients > 0
  /\ analyzer.clusters # <<>>

\* C6: the same tables aggregated into two freshly constructed analyzers
\* of one process give the same term counts and the same totals.
C6_FreshRunsAgree ==
  (/\ last_call.op = "add_counts"
   /\ Len(ingest_log) = 1 /\ AllSucceeded(ingest_log)
   /\ earlier.log = ingest_log) =>
    \A c \in Clusters :
      /\ Total(analyzer, c) = Total(earlier.an, c)
      /\ \A t \in AllTerms : TermCount(analyzer, c, t) = TermCount(earlier.an, c, t)

\* Every cluster of the last assignment has aggregated patients.
EveryClusterCounted(an) ==
  \A i \in 1..Len(an.clusters) :
    /\ an.clusters[i] \in DOMAIN an.percluster_termcounts
    /\ an.percluster_termcounts[an.clusters[i]].dd

\* C7: with a number of clusters other than two, do_fisher_exact does not
\* raise and gives every observed term a row whose odds ratio and p-value
\* are not-a-number, with a diagnostic.
C7_FisherNotTwoClustersGivesNaN ==
  (/\ last_call.op = "do_fisher_exact"
   /\ AllSucceeded(ingest_log)
   /\ EveryClusterCounted(analyzer)
   /\ Len(analyzer.clusters) # 2
   /\ analyzer.hpo_terms # {}) =>
    /\ last_call.outcome = "ok"
    /\ \A t \in analyzer.hpo_terms :
         /\ t \in DOMAIN last_call.rows
         /\ last_call.rows[t].oddsr = NaN
         /\ last_call.rows[t].p = NaN
         /\ t \in last_call.warned

\* C8: after a successful add_counts, do_chi2 returns one row per observed
\* term and, in it, for every cluster of the assignment, the total, the
\* with count (0 where unrecorded) and without = total - with.
C8_Chi2RowsCarryTheCounts ==
  (last_call.op = "do_chi2" /\ AllSucceeded(ingest_log)) =>
    /\ last_call.outcome = "ok"
    /\ DOMAIN last_call.rows = analyzer.hpo_terms
    /\ \A t \in analyzer.hpo_terms, c \in Elems(analyzer.clusters) :
         LET d == last_call.rows[t].d
         IN /\ d.total[c] = Total(analyzer, c)
            /\ d.with[c] = TermCount(analyzer, c, t)
            /\ d.without[c] = d.total[c] - d.with[c]
            /\ 0 <= d.with[c] /\ d.with[c] <= d.total[c]

\* C9: do_chi2 records not-a-number with a warning, without raising,
\* exactly for the terms whose without counts are all zero or whose with
\* counts are all zero, and runs the test on [with; without] for the others.
C9_Chi2NaNExactlyWithoutVariance ==
  (last_call.op = "do_chi2" /\ AllSucceeded(ingest_log)) =>
    /\ last_call.outcome = "ok"
    /\ \A t \in analyzer.hpo_terms :
         LET cl == analyzer.clusters
             with == [i \in 1..Len(cl) |-> TermCount(analyzer, cl[i], t)]
             without == [i \in 1..Len(cl) |-> Total(analyzer, cl[i]) - with[i]]
             row == last_call.rows[t]
         IN IF ~any(without) \/ ~any(with)
            THEN row.stat = NaN /\ row.p = NaN /\ row.dof = NaN
                 /\ row.expected = NaN /\ t \in last_call.warned
            ELSE row.stat = [kind |-> "chi2_contingency", table |-> <<with, without>>]
                 /\ t \notin last_call.warned

\* C2: get_ancestors(T) returns exactly the terms reachable from T by zero
\* or more parent edges.
C2_AncestorsAreParentClosure ==
  closure_call.op = "get_ancestors" =>
    closure_call.result = ParentClosure(graph, {closure_call.term})

\* C3: a top-level call of get_ancestors or get_descendents starts from an
\* empty accumulator, whatever calls came before it.
C3_ClosureCallsKeepNoState ==
  /\ closure_call.op = "get_ancestors" =>
       closure_call.result = Elems(get_ancestors(graph, closure_call.term, <<>>))
  /\ closure_call.op = "get_descendents" =>
       closure_call.result = Elems(get_descendents(graph, closure_call.term, <<>>))

\* The covariate columns that are tested.
Tested(call) == (Elems(CovColumns) \ {call.cluster_col}) \ call.ignore_col

\* C10: with bonferroni set and N columns tested, every output p-value
\* that is a number is min(1, raw p * N), and every not-a-number p-value
\* stays not-a-number.
C10_BonferroniTimesNCappedAtOne ==
  (~cov_call.pending /\ cov_call.outcome = "ok" /\ cov_call.bonferroni) =>
    LET N == Cardinality(Tested(cov_call))
    IN /\ Len(cov_call.results) = N
       /\ \A i \in 1..N :
            IF cov_call.raw[i].p = NaN
            THEN cov_call.results[i].p = NaN
            ELSE cov_call.results[i].p =
                   Num(IF cov_call.raw[i].p.v * N < PScale
                       THEN cov_call.raw[i].p.v * N ELSE PScale)

\* A corrected result of two tested columns: one p-value not-a-number (too
\* few true rows), the other above 1 before the cap.
C10_Witness ==
  /\ ~cov_call.pending /\ cov_call.outcome = "ok" /\ cov_call.bonferroni
  /\ Len(cov_call.results) = 2
  /\ \E i, j \in 1..2 :
       /\ cov_call.raw[i].p = NaN /\ cov_call.results[i].p = NaN
       /\ cov_call.raw[j].p # NaN
       /\ cov_call.raw[j].p.v * 2 > PScale
       /\ cov_call.results[j].p = Num(PScale)

====
